---- MODULE Spec2Model ----
(***************************************************************************)
(* Model of the disk-writer server of src/app.py: the start / stop / clear *)
(* handlers, the background write_task thread with its write_chunk loop,   *)
(* and the data directory.  The display layer (the reactive mirrors        *)
(* current_size, file_counter, target_size_gb, chunk_size_mb, the          *)
(* update_values message, status and progress_plot) only copies the shared *)
(* state for rendering and never feeds back into the controller, so it is  *)
(* left out; write_thread, which the clear handler reads, is kept.  The    *)
(* file table file_list and write_chunk are also specified on their own.   *)
(*                                                                         *)
(* Sizes are counted in MiB.  target_gb and current_size_gb hold the value *)
(* of the program's GB figure times 1024 (get_dir_size_gb divides the byte *)
(* total by 1024**3, a monotone scaling, so every comparison is kept).     *)
(***************************************************************************)
EXTENDS Integers, FiniteSets, Sequences, TLC

\* --- bounds of the model ---------------------------------------------------
MaxThreads == 2      \* write_task threads that may be alive together
MaxFailures == 1     \* I/O failures (open, write, unlink) injected in a behaviour
MaxChunkMiB == 35    \* largest size_mb given to write_chunk on its own (ChunkSpec)
MaxFiles == 12       \* most files in the directory file_list() renders (ListSpec)

\* --- program constant ------------------------------------------------------
SubChunkMiB == 10    \* write_chunk: sub_chunk_size = min(10 MiB, chunk_size)
HeadRows == 10       \* file_list: df.head(10)

\* --- inputs of the start handler -------------------------------------------
TargetChoices == {30}          \* input.target_size(), as MiB
ChunkChoices == {10, 20}       \* input.chunk_size(), MiB

Threads == 1..MaxThreads
NoThread == 0

VARIABLES
    \* shared state of server()
    writing_flag, current_size_gb, files_created, target_gb, chunk_mb,
    \* the reactive value holding the last thread started
    write_thread,
    \* the data directory: file number n (data_chunk_<n>.dat) |-> size
    dir,
    \* write_task threads: position and locals of write_task / write_chunk
    pc, path, remaining, sub_chunk_size, offset, linked,
    \* the iterations of the while loop of write_chunk (line 28) done in this call
    sub_writes,
    \* the foreground (reactive) context: "idle" or "clear_wait" (inside join)
    fg,
    \* history variables, read by the properties only (failures also bounds the
    \* injected I/O errors); those about a run are forgotten when no thread is left
    startedWhileSet, stopReq, cleared, disturbed, failures,
    \* the last step was a Stop call that found the flag clear
    stoppedWhileClear,
    \* history of the run in progress: the directory total and files_created[0]
    \* the start handler found (kept while the run is undisturbed), and whether
    \* a Stop fell inside a chunk write of the only thread alive ("stopped") and a
    \* sub-chunk was written since ("wrote"), forgotten at the next handler call
    startSize, startFiles, midStop,
    \* the table file_list() rendered last: records in display order
    listing

progVars == <<writing_flag, current_size_gb, files_created, target_gb, chunk_mb,
              write_thread, dir, pc, path, remaining, sub_chunk_size, offset,
              linked, sub_writes, fg>>
histVars == <<startedWhileSet, stopReq, cleared, disturbed, failures>>
runHist == <<startSize, startFiles, midStop>>
vars == <<progVars, histVars, stoppedWhileClear, runHist, listing>>

sharedVars == <<writing_flag, current_size_gb, files_created, target_gb, chunk_mb>>
localVars == <<path, remaining, sub_chunk_size, offset, linked, sub_writes>>

Min(a, b) == IF a < b THEN a ELSE b
Max(a, b) == IF a > b THEN a ELSE b

EmptyDir == [n \in {} |-> 0]

RECURSIVE SumSizes(_, _)
SumSizes(d, names) ==
    IF names = {} THEN 0
    ELSE LET n == CHOOSE x \in names : TRUE
         IN d[n] + SumSizes(d, names \ {n})

\* get_dir_size_gb(data_dir): the total size of the files of the directory
get_dir_size_gb(d) == SumSizes(d, DOMAIN d)

\* positions of a thread inside the while loop of write_task
LoopPcs == {"check", "inc", "open", "write", "rescan"}

is_alive(t) == pc[t] # "none"
InLoop(t) == pc[t] \in LoopPcs
InRun(t) == pc[t] \in LoopPcs \cup {"exit"}

Init ==
    /\ writing_flag = FALSE
    /\ current_size_gb = 0
    /\ files_created = 0
    /\ target_gb = 0
    /\ chunk_mb = 0
    /\ write_thread = NoThread
    /\ dir = EmptyDir
    /\ pc = [t \in Threads |-> "none"]
    /\ path = [t \in Threads |-> 0]
    /\ remaining = [t \in Threads |-> 0]
    /\ sub_chunk_size = [t \in Threads |-> 0]
    /\ offset = [t \in Threads |-> 0]
    /\ linked = [t \in Threads |-> FALSE]
    /\ sub_writes = [t \in Threads |-> 0]
    /\ fg = "idle"
    /\ startedWhileSet = FALSE
    /\ stopReq = FALSE
    /\ cleared = FALSE
    /\ disturbed = FALSE
    /\ failures = 0
    /\ stoppedWhileClear = FALSE
    /\ startSize = 0
    /\ startFiles = 0
    /\ midStop = "no"
    /\ listing = <<>>


\* --- the foreground handlers -------------------------------------------------

\* a start handler that forgets to test the flag
StartGateOpen == TRUE

\* line 93: the gate of the start handler
StartGate == ~writing_flag

\* the thread object created at line 137: the lowest thread slot not alive
NewThread == CHOOSE s \in Threads : ~is_alive(s) /\ \A r \in Threads : r < s => is_alive(r)

\* @reactive.event(input.start_write), lines 90-140
start_write(t_in, c_in) ==
    /\ fg = "idle"
    /\ StartGate => \E s \in Threads : ~is_alive(s)
    /\ startedWhileSet' = writing_flag
    /\ stoppedWhileClear' = FALSE
    /\ IF StartGate
       THEN /\ target_gb' = t_in
            /\ chunk_mb' = c_in
            /\ current_size_gb' = get_dir_size_gb(dir)
            /\ writing_flag' = TRUE
            /\ pc' = [pc EXCEPT ![NewThread] = "check"]
            /\ write_thread' = NewThread
            /\ stopReq' = FALSE
            /\ cleared' = FALSE
            /\ disturbed' = IF \E t \in Threads : InRun(t) THEN disturbed ELSE FALSE
            /\ startSize' = IF \E t \in Threads : InRun(t) THEN 0 ELSE get_dir_size_gb(dir)
            /\ startFiles' = IF \E t \in Threads : InRun(t) THEN 0 ELSE files_created
            /\ midStop' = "no"
            /\ UNCHANGED <<files_created, dir, localVars, fg, failures>>
       ELSE UNCHANGED <<progVars, stopReq, cleared, disturbed, failures, runHist>>
    /\ UNCHANGED listing

\* a Stop that flips the flag instead of clearing it
StopFlagToggled == ~writing_flag

\* line 151: writing_flag.clear()
StopFlag == FALSE

\* @reactive.event(input.stop_write), lines 147-151
stop_write ==
    /\ fg = "idle"
    /\ writing_flag' = StopFlag
    /\ startedWhileSet' = FALSE
    /\ stoppedWhileClear' = ~writing_flag
    /\ stopReq' = \E t \in Threads : is_alive(t)
    /\ disturbed' = \E t \in Threads : is_alive(t)
    /\ startSize' = 0
    /\ startFiles' = 0
    /\ midStop' = IF /\ Cardinality({t \in Threads : is_alive(t)}) = 1
                     /\ \E t \in Threads : pc[t] = "write"
                  THEN "stopped" ELSE "no"
    /\ UNCHANGED <<current_size_gb, files_created, target_gb, chunk_mb, write_thread,
                   dir, pc, localVars, fg, cleared, failures, listing>>

\* a deletion loop that gives up at the first unlink that fails
SurvivorsOfAbortedLoop(failed) == IF failed = {} THEN {} ELSE DOMAIN dir

\* lines 165-171: the try is inside the for loop, so the files left are those
\* whose unlink raised
Survivors(failed) == failed

\* lines 164-176 of the clear handler: unlink every file (an unlink may fail and
\* leave its file), then reset the counters
DeleteAndReset ==
    /\ \E kept \in SUBSET (DOMAIN dir) :
          /\ failures + Cardinality(kept) <= MaxFailures
          /\ failures' = failures + Cardinality(kept)
          /\ dir' = [n \in Survivors(kept) |-> dir[n]]
          /\ linked' = [t \in Threads |-> linked[t] /\ path[t] \in Survivors(kept)]
    /\ files_created' = 0
    /\ current_size_gb' = 0
    /\ cleared' = \E t \in Threads : is_alive(t)

\* @reactive.event(input.clear_data), lines 153-176, up to the return of the
\* handler or up to its blocking join(1) when the thread is alive
clear_data ==
    /\ fg = "idle"
    /\ writing_flag' = FALSE
    /\ startedWhileSet' = FALSE
    /\ stoppedWhileClear' = FALSE
    /\ disturbed' = \E t \in Threads : is_alive(t)
    /\ IF write_thread # NoThread /\ is_alive(write_thread)
       THEN /\ fg' = "clear_wait"
            /\ UNCHANGED <<current_size_gb, files_created, dir, linked, cleared, failures>>
       ELSE /\ DeleteAndReset
            /\ fg' = fg
    /\ startSize' = 0
    /\ startFiles' = 0
    /\ midStop' = "no"
    /\ UNCHANGED <<target_gb, chunk_mb, write_thread, pc, path, remaining,
                   sub_chunk_size, offset, sub_writes, stopReq, listing>>

\* the clear handler after join(1) returned: the thread ended or the second elapsed
clear_after_join ==
    /\ fg = "clear_wait"
    /\ DeleteAndReset
    /\ fg' = "idle"
    /\ stoppedWhileClear' = FALSE
    /\ UNCHANGED <<writing_flag, target_gb, chunk_mb, write_thread, pc, path, remaining,
                   sub_chunk_size, offset, sub_writes, startedWhileSet, stopReq,
                   disturbed, runHist, listing>>

\* --- the write_task thread ---------------------------------------------------

\* a loop condition that stops one chunk short of the target
LoopCondEarly == writing_flag /\ current_size_gb + chunk_mb < target_gb

\* a loop condition that runs one chunk past the target
LoopCondLate == writing_flag /\ current_size_gb < target_gb + chunk_mb

\* a loop condition that forgets to test the flag
LoopCondNoFlag == current_size_gb < target_gb

\* line 111: the condition of the while loop
LoopCond == writing_flag /\ current_size_gb < target_gb

Goto(t, where) == pc' = [pc EXCEPT ![t] = where]

\* the locals of write_chunk go out of scope when it returns or raises
DropLocals(t) ==
    /\ path' = [path EXCEPT ![t] = 0]
    /\ remaining' = [remaining EXCEPT ![t] = 0]
    /\ sub_chunk_size' = [sub_chunk_size EXCEPT ![t] = 0]
    /\ offset' = [offset EXCEPT ![t] = 0]
    /\ linked' = [linked EXCEPT ![t] = FALSE]
    /\ sub_writes' = [sub_writes EXCEPT ![t] = 0]

\* line 111: evaluate the loop condition
loop_test(t) ==
    /\ pc[t] = "check"
    /\ Goto(t, IF LoopCond THEN "inc" ELSE "exit")
    /\ UNCHANGED <<sharedVars, write_thread, dir, localVars, fg,
                   stopReq, cleared, disturbed, failures, runHist>>

\* lines 113-114: files_created[0] += 1 and file_path = data_chunk_<that>.dat
name_file(t) ==
    /\ pc[t] = "inc"
    /\ files_created' = files_created + 1
    /\ path' = [path EXCEPT ![t] = files_created + 1]
    /\ Goto(t, "open")
    /\ UNCHANGED <<writing_flag, current_size_gb, target_gb, chunk_mb, write_thread,
                   dir, remaining, sub_chunk_size, offset, linked, sub_writes, fg,
                   stopReq, cleared, disturbed, failures, runHist>>

\* an except branch that goes round the loop again instead of leaving it
AfterExceptRetry == "check"

\* line 129: break leaves the while loop for line 132
AfterExcept == "exit"

\* an I/O error inside the try block: lines 127-129 print it and break
io_error(t) ==
    /\ failures < MaxFailures
    /\ failures' = failures + 1
    /\ disturbed' = TRUE
    /\ DropLocals(t)
    /\ Goto(t, AfterExcept)
    /\ startSize' = 0
    /\ startFiles' = 0
    /\ midStop' = "no"
    /\ UNCHANGED <<dir, current_size_gb>>

\* line 123 and write_chunk lines 21-27: open(path, 'w') creates or truncates
open_file(t) ==
    /\ pc[t] = "open"
    /\ \/ io_error(t)
       \/ /\ dir' = (path[t] :> 0) @@ dir
          /\ remaining' = [remaining EXCEPT ![t] = chunk_mb]
          /\ sub_chunk_size' = [sub_chunk_size EXCEPT ![t] = Min(SubChunkMiB, chunk_mb)]
          /\ offset' = [offset EXCEPT ![t] = 0]
          /\ linked' = [linked EXCEPT ![t] = TRUE]
          /\ sub_writes' = [sub_writes EXCEPT ![t] = 0]
          /\ Goto(t, IF chunk_mb > 0 THEN "write" ELSE "rescan")
          /\ UNCHANGED <<current_size_gb, path, disturbed, failures, runHist>>
    /\ UNCHANGED <<writing_flag, files_created, target_gb, chunk_mb, write_thread, fg,
                   stopReq, cleared>>

\* the directory as a sub-write of write_size bytes by thread t leaves it: the
\* bytes land at the offset of its handle, in the file if it is still linked
WriteAt(t, write_size) ==
    IF linked[t]
    THEN [dir EXCEPT ![path[t]] = Max(@, offset[t] + write_size)]
    ELSE dir

\* a sub-write that always writes a full sub-chunk
WriteSizeFull(t) == sub_chunk_size[t]

\* line 29: write_size = min(sub_chunk_size, remaining)
WriteSize(t) == Min(sub_chunk_size[t], remaining[t])

\* write_chunk lines 29-34: one sub-chunk written at the handle's offset and
\* flushed, then the callback update_progress (lines 118-121) rescans the directory
write_sub_chunk(t) ==
    /\ pc[t] = "write"
    /\ \/ io_error(t)
       \/ LET write_size == WriteSize(t) IN
          /\ dir' = WriteAt(t, write_size)
          /\ offset' = [offset EXCEPT ![t] = @ + write_size]
          /\ remaining' = [remaining EXCEPT ![t] = @ - write_size]
          /\ current_size_gb' = get_dir_size_gb(WriteAt(t, write_size))
          /\ sub_writes' = [sub_writes EXCEPT ![t] = @ + 1]
          /\ Goto(t, IF remaining[t] - write_size > 0 THEN "write" ELSE "rescan")
          /\ midStop' = IF midStop = "stopped" THEN "wrote" ELSE midStop
          /\ UNCHANGED <<path, sub_chunk_size, linked, disturbed, failures,
                         startSize, startFiles>>
    /\ UNCHANGED <<writing_flag, files_created, target_gb, chunk_mb, write_thread, fg,
                   stopReq, cleared>>

\* the end of write_chunk (the with block closes the file) and lines 124-126
after_chunk(t) ==
    /\ pc[t] = "rescan"
    /\ DropLocals(t)
    /\ current_size_gb' = get_dir_size_gb(dir)
    /\ Goto(t, "check")
    /\ midStop' = "no"
    /\ UNCHANGED <<writing_flag, files_created, target_gb, chunk_mb, write_thread,
                   dir, fg, stopReq, cleared, disturbed, failures, startSize, startFiles>>

\* lines 132-134: writing_flag.clear(), the final message, and the thread ends
clear_flag(t) ==
    /\ pc[t] = "exit"
    /\ writing_flag' = FALSE
    /\ Goto(t, "none")
    /\ stopReq' = (stopReq /\ \E r \in Threads \ {t} : is_alive(r))
    /\ cleared' = (cleared /\ \E r \in Threads \ {t} : is_alive(r))
    /\ disturbed' = (disturbed /\ \E r \in Threads \ {t} : is_alive(r))
    /\ startSize' = IF \E r \in Threads \ {t} : is_alive(r) THEN startSize ELSE 0
    /\ startFiles' = IF \E r \in Threads \ {t} : is_alive(r) THEN startFiles ELSE 0
    /\ midStop' = "no"
    /\ UNCHANGED <<current_size_gb, files_created, target_gb, chunk_mb, write_thread,
                   dir, localVars, fg, failures>>

write_task(t) ==
    /\ \/ loop_test(t)
       \/ name_file(t)
       \/ open_file(t)
       \/ write_sub_chunk(t)
       \/ after_chunk(t)
       \/ clear_flag(t)
    /\ startedWhileSet' = FALSE
    /\ stoppedWhileClear' = FALSE
    /\ UNCHANGED listing

\* one call of write_chunk (lines 18-34) by thread t, up to its return or its exception
write_chunk(t) ==
    /\ open_file(t) \/ write_sub_chunk(t)
    /\ startedWhileSet' = FALSE
    /\ stoppedWhileClear' = FALSE
    /\ UNCHANGED listing

\* --- the file table ---------------------------------------------------------------

\* str(n): the decimal digits of n as character codes
RECURSIVE Digits(_)
Digits(n) == IF n < 10 THEN <<48 + n>> ELSE Digits(n \div 10) \o <<48 + (n % 10)>>

\* line 114: f"data_chunk_{n}.dat", as character codes
Filename(n) ==
    <<100, 97, 116, 97, 95, 99, 104, 117, 110, 107, 95>> \o Digits(n) \o <<46, 100, 97, 116>>

\* Python's str comparison a < b: by code point, a proper prefix is smaller
RECURSIVE StrLess(_, _)
StrLess(a, b) ==
    IF b = <<>> THEN FALSE
    ELSE IF a = <<>> THEN TRUE
    ELSE IF Head(a) # Head(b) THEN Head(a) < Head(b)
    ELSE StrLess(Tail(a), Tail(b))

\* line 244: df.sort_values("Filename", ascending=False), on the file numbers
RECURSIVE SortDescending(_)
SortDescending(names) ==
    IF names = {} THEN <<>>
    ELSE LET top == CHOOSE n \in names :
                        \A m \in names \ {n} : StrLess(Filename(m), Filename(n))
         IN <<top>> \o SortDescending(names \ {top})

\* @render.table file_list, lines 226-250: one record per file, sorted by
\* Filename descending, the first 10 rows
file_list ==
    /\ listing' = LET sorted == SortDescending(DOMAIN dir)
                  IN [i \in 1..Min(HeadRows, Len(sorted)) |->
                         [Filename |-> sorted[i], Size |-> dir[sorted[i]]]]
    /\ UNCHANGED <<progVars, histVars, stoppedWhileClear, runHist>>

\* --- the specifications --------------------------------------------------------

Next ==
    \/ \E t_in \in TargetChoices, c_in \in ChunkChoices : start_write(t_in, c_in)
    \/ stop_write
    \/ clear_data
    \/ clear_after_join
    \/ \E t \in Threads : write_task(t)

Spec == Init /\ [][Next]_vars

\* the write thread is scheduled fairly and join(1) returns
LiveSpec ==
    /\ Spec
    /\ \A t \in Threads : WF_vars(write_task(t))
    /\ WF_vars(clear_after_join)


\* write_chunk on its own: the first thread of a run has named data_chunk_1.dat
\* in an empty directory and calls write_chunk with any size_mb up to the bound
ChunkInit ==
    /\ writing_flag = TRUE
    /\ current_size_gb = 0
    /\ files_created = 1
    /\ target_gb = MaxChunkMiB
    /\ chunk_mb \in 1..MaxChunkMiB
    /\ write_thread = 1
    /\ dir = EmptyDir
    /\ pc = [t \in Threads |-> IF t = 1 THEN "open" ELSE "none"]
    /\ path = [t \in Threads |-> IF t = 1 THEN 1 ELSE 0]
    /\ remaining = [t \in Threads |-> 0]
    /\ sub_chunk_size = [t \in Threads |-> 0]
    /\ offset = [t \in Threads |-> 0]
    /\ linked = [t \in Threads |-> FALSE]
    /\ sub_writes = [t \in Threads |-> 0]
    /\ fg = "idle"
    /\ startedWhileSet = FALSE
    /\ stopReq = FALSE
    /\ cleared = FALSE
    /\ disturbed = FALSE
    /\ failures = 0
    /\ stoppedWhileClear = FALSE
    /\ startSize = 0
    /\ startFiles = 0
    /\ midStop = "no"
    /\ listing = <<>>

ChunkNext == write_chunk(1)

ChunkSpec == ChunkInit /\ [][ChunkNext]_vars


\* file_list on its own: a finished run of k chunks of c MiB in an empty
\* directory left data_chunk_1.dat .. data_chunk_k.dat, and the table is rendered
ListInit ==
    \E k \in 0..MaxFiles, c \in 1..MaxChunkMiB :
        /\ writing_flag = FALSE
        /\ current_size_gb = k * c
        /\ files_created = k
        /\ target_gb = k * c
        /\ chunk_mb = c
        /\ write_thread = IF k = 0 THEN NoThread ELSE 1
        /\ dir = [n \in 1..k |-> c]
        /\ pc = [t \in Threads |-> "none"]
        /\ path = [t \in Threads |-> 0]
        /\ remaining = [t \in Threads |-> 0]
        /\ sub_chunk_size = [t \in Threads |-> 0]
        /\ offset = [t \in Threads |-> 0]
        /\ linked = [t \in Threads |-> FALSE]
        /\ sub_writes = [t \in Threads |-> 0]
        /\ fg = "idle"
        /\ startedWhileSet = FALSE
        /\ stopReq = FALSE
        /\ cleared = FALSE
        /\ disturbed = FALSE
        /\ failures = 0
        /\ stoppedWhileClear = FALSE
        /\ startSize = 0
        /\ startFiles = 0
        /\ midStop = "no"
        /\ listing = <<>>

ListNext == file_list

ListSpec == ListInit /\ [][ListNext]_vars


\* --- the claims ----------------------------------------------------------------

NoThreadAlive == \A t \in Threads : ~is_alive(t)

\* C1: at most one background write loop is alive at any time, after any
\* sequence of Start, Stop and Clear calls.
C1_AtMostOneLoop == Cardinality({t \in Threads : InLoop(t)}) <= 1

\* C2: Start is a no-op when the state is not Idle (the flag is set): such a call
\* changes neither the captured config, the counters, the run state, the
\* directory nor the set of write loops.
C2_StartWhileRunningIsNoop == [][startedWhileSet' => UNCHANGED progVars]_vars

\* a Start has just been called while a write loop was running
C2_Witness == startedWhileSet /\ writing_flag /\ \E t \in Threads : InLoop(t)

\* a write loop leaves the run: line 132 clears the flag
RunEnds(t) == pc[t] = "exit" /\ pc'[t] = "none"

\* C3 as stated: for a valid config, when a run ends without Stop having been
\* called, the reported currentSize is at least the target.
C3_EndsAtTargetUnlessStop ==
    [][\A t \in Threads :
          (RunEnds(t) /\ ~stopReq /\ target_gb > 0 /\ chunk_mb > 0)
             => current_size_gb >= target_gb]_vars

\* C3 amended: for a valid config, when a run ends with no Stop or Clear called
\* and no I/O error raised while any of its write loops was alive, the reported
\* currentSize, and the directory total it reports, are at least the target.
C3_EndsAtTargetWhenUndisturbed ==
    [][\A t \in Threads :
          (RunEnds(t) /\ ~disturbed /\ target_gb > 0 /\ chunk_mb > 0)
             => /\ current_size_gb >= target_gb
                /\ current_size_gb = get_dir_size_gb(dir)]_vars

\* an undisturbed run that wrote files has left its loop and is about to end
C3_Witness ==
    \E t \in Threads :
        /\ pc[t] = "exit"
        /\ ~disturbed
        /\ failures = 0
        /\ files_created > 0
        /\ target_gb > 0
        /\ current_size_gb >= target_gb

C5_ClearedStaysZero == cleared => (current_size_gb = 0 /\ files_created = 0)

\* C6: whenever Clear unlinks a file, no write loop has that file open for writing.
C6_NoDeleteWhileOpen ==
    [][\A n \in DOMAIN dir :
          n \notin DOMAIN dir' => \A t \in Threads : ~(linked[t] /\ path[t] = n)]_vars

\* C7: every started run eventually ends with its write loop exited, under a
\* fairly scheduled write thread.
C7_EveryLoopEnds == \A t \in Threads : is_alive(t) ~> ~is_alive(t)

\* C8: within a single run (the state stays Running), successive snapshots are
\* non-decreasing in filesCreated and in currentSize.
C8_MonotoneInRun ==
    [][(writing_flag /\ writing_flag')
          => (files_created' >= files_created /\ current_size_gb' >= current_size_gb)]_vars

\* C9: whenever no write loop is active and no handler is running, the reported
\* currentSize equals the sum of the sizes of the files in the directory.
C9_NoDriftWhenQuiescent ==
    (NoThreadAlive /\ fg = "idle") => current_size_gb = get_dir_size_gb(dir)

\* C10: the target size and chunk size a write loop uses do not change for as
\* long as that loop is alive.
C10_ConfigFixedWhileAlive ==
    [][\A t \in Threads :
          (pc[t] # "none" /\ pc'[t] # "none")
             => (target_gb' = target_gb /\ chunk_mb' = chunk_mb)]_vars

CeilDiv(a, b) == (a + b - 1) \div b

\* the files the claimed formula max(0, ceil((T - S) / C)) gives for the run in progress
ExpectedFiles ==
    IF startSize >= target_gb THEN 0 ELSE CeilDiv(target_gb - startSize, chunk_mb)

\* C11: a run started with directory size S, target T and chunk size C > 0 that
\* meets no Stop, Clear or write failure has created exactly
\* max(0, ceil((T - S) / C)) files when it ends, and the state is then Idle.
C11_ExactFileCount ==
    [][\A t \in Threads :
          (RunEnds(t) /\ ~disturbed /\ chunk_mb > 0)
             => /\ files_created - startFiles = ExpectedFiles
                /\ ~writing_flag']_vars

\* C12: a write failure during a chunk aborts only the current run: the failing
\* step leaves the loop with the partially written file still in the directory,
\* the loop then only clears the flag (state Idle) and ends, writing and
\* creating nothing further and retrying nothing, and once no loop is left the
\* gate of Start is open again.
C12_WriteFailureAbortsRun ==
    /\ [](NoThreadAlive => ~writing_flag)
    /\ [][\A t \in Threads :
             /\ (pc[t] \in {"open", "write"} /\ failures' > failures /\ pc'[t] # pc[t])
                   => (pc'[t] = "exit" /\ dir' = dir /\ files_created' = files_created)
             /\ (pc[t] = "exit" /\ pc'[t] # "exit")
                   => /\ pc'[t] = "none"
                      /\ ~writing_flag'
                      /\ dir' = dir
                      /\ files_created' = files_created]_vars

\* the only loop alive has left its loop on a write failure, short of the target
\* with the flag still set, and its partially written file is in the directory
C12_Witness ==
    /\ Cardinality({t \in Threads : is_alive(t)}) = 1
    /\ \E t \in Threads : pc[t] = "exit"
    /\ writing_flag
    /\ failures > 0
    /\ current_size_gb < target_gb
    /\ \E n \in DOMAIN dir : dir[n] > 0 /\ dir[n] < chunk_mb

\* C13: Stop() called while Idle with no loop alive is a no-op (run state,
\* counters, config and directory contents unchanged), and Stop is idempotent:
\* a Stop leaves the flag clear, and a Stop that finds the flag clear, as the
\* second of two calls in a row does, changes nothing.
C13_StopIdleNoopIdempotent ==
    [][/\ stop_write => ~writing_flag'
       /\ (stop_write /\ NoThreadAlive) => stoppedWhileClear'
       /\ stoppedWhileClear' => UNCHANGED progVars]_vars

\* Stop has just been called with files in the directory and no loop alive
C13_Witness == stoppedWhileClear /\ NoThreadAlive /\ files_created > 0 /\ DOMAIN dir # {}

\* C14: a Stop request is observed at the next sub-chunk boundary: after Stop is
\* called during a chunk write, the loop completes at most the sub-chunk in
\* progress and writes no further sub-chunk of that chunk.
C14_StopSeenAtSubChunkBoundary ==
    [][midStop = "wrote"
          => \A t \in Threads : ~(pc[t] = "write" /\ sub_writes'[t] > sub_writes[t])]_vars

\* C15: the state becomes Idle only when the write loop has observed the stop
\* signal or completed: whenever the reported state is Idle (status() reads the
\* flag), no write loop is still writing data.
C15_IdleMeansNoLoopWriting ==
    ~writing_flag => \A t \in Threads : pc[t] # "write"

\* C16: a run overshoots the target by less than one chunk: when a run that
\* wrote at least one chunk ends by reaching the target (no Stop, Clear or
\* failure), the directory total is at least the target and strictly less than
\* target + chunk size.
C16_OvershootBelowOneChunk ==
    [][\A t \in Threads :
          (RunEnds(t) /\ ~disturbed /\ files_created > startFiles /\ chunk_mb > 0)
             => /\ get_dir_size_gb(dir) >= target_gb
                /\ get_dir_size_gb(dir) < target_gb + chunk_mb]_vars

\* an undisturbed run that wrote chunks is about to end above its target
C16_Witness ==
    \E t \in Threads :
        /\ pc[t] = "exit"
        /\ ~disturbed
        /\ files_created > startFiles
        /\ get_dir_size_gb(dir) > target_gb

\* the clear handler runs its deletion loop and counter reset (lines 164-176)
ClearCompletes == (clear_data /\ fg' = "idle") \/ clear_after_join

\* C17: Clear tolerates deletion failures: when deleting a file fails, Clear
\* still deletes every other file of the directory and still resets the
\* counters; the files that remain, unchanged, are as many as the unlinks that
\* failed.
C17_ClearToleratesFailures ==
    [][ClearCompletes
          => /\ files_created' = 0
             /\ current_size_gb' = 0
             /\ \A n \in DOMAIN dir' : n \in DOMAIN dir /\ dir'[n] = dir[n]
             /\ Cardinality(DOMAIN dir') = failures' - failures]_vars

\* Clear has returned with the counters reset and one written file left, the
\* one whose unlink failed, while the files numbered below it are gone
C17_Witness ==
    /\ fg = "idle"
    /\ files_created = 0
    /\ current_size_gb = 0
    /\ failures > 0
    /\ \E n \in DOMAIN dir : n > 1 /\ DOMAIN dir = {n} /\ dir[n] > 0

\* C18: write_chunk with total size B > 0 and sub-chunk bound s = min(10 MiB, B)
\* performs exactly ceil(B / s) sub-writes, each of at most s bytes and summing
\* to B, flushes and runs the progress callback once after each sub-write (the
\* file then holds the bytes written so far and the size seen by the callback
\* is the directory total), and leaves the file with size B; a failing
\* sub-write stops it at once and the file keeps the bytes written so far.
C18_WriteChunkSubWrites ==
    /\ [](pc[1] = "rescan"
            => /\ sub_writes[1] = CeilDiv(chunk_mb, Min(SubChunkMiB, chunk_mb))
               /\ offset[1] = chunk_mb
               /\ dir[path[1]] = chunk_mb)
    /\ [][/\ (sub_writes'[1] > sub_writes[1])
              => /\ sub_writes'[1] = sub_writes[1] + 1
                 /\ offset'[1] - offset[1] \in 1..Min(SubChunkMiB, chunk_mb)
                 /\ dir'[path[1]] = offset'[1]
                 /\ current_size_gb' = get_dir_size_gb(dir')
          /\ (pc[1] = "write" /\ failures' > failures)
              => /\ pc'[1] = "exit"
                 /\ dir' = dir
                 /\ dir[1] = sub_writes[1] * Min(SubChunkMiB, chunk_mb)
          /\ (pc[1] = "exit") => (pc'[1] = "exit")]_vars

\* write_chunk has returned after several sub-writes, the last a short one
C18_Witness ==
    /\ pc[1] = "rescan"
    /\ sub_writes[1] > 2
    /\ chunk_mb % SubChunkMiB # 0
    /\ dir[1] = chunk_mb

\* C19: the write loop never opens for writing, and so never truncates, a file
\* name that already exists in the directory: each name allocated from the
\* files_created counter is fresh, after any runs, failures, Stop and Clear.
C19_NamesAreFresh ==
    [][\A t \in Threads :
          (pc[t] = "open" /\ pc'[t] \in {"write", "rescan"}) => path[t] \notin DOMAIN dir]_vars

\* the file numbers of the rows of the rendered table
Listed == {listing[i].Filename : i \in 1..Len(listing)}

\* C20: file_list returns min(10, number of files) records sorted by filename
\* string in descending order, and these are the most recently created files:
\* for data_chunk_1.dat .. data_chunk_k.dat created in order the rows are those
\* with the highest sequence numbers, for every k including k >= 10.
C20_ListsMostRecent ==
    (listing # <<>> /\ DOMAIN dir = 1..files_created)
       => /\ Len(listing) = Min(HeadRows, files_created)
          /\ \A i \in 1..(Len(listing) - 1) :
                 StrLess(Filename(listing[i + 1].Filename), Filename(listing[i].Filename))
          /\ Listed = {n \in 1..files_created : n > files_created - HeadRows}

====
